---- MODULE Spec2Model ----
(***************************************************************************)
(* Model of pygedm's NE2001 wrapper (ne2001_wrapper.py): the               *)
(* run_from_pkgdir working-directory guard, the three guarded public       *)
(* operations dm_to_dist, dist_to_dm and calculate_electron_density_xyz,   *)
(* the TAUISS formula and the READTHEDOCS stand-in (class Mock).           *)
(*                                                                         *)
(* Numbers.  DM and distance values are dyadic rationals n * 2^-27, held   *)
(* as the integer n, so that both the float32 coercion (24 significant     *)
(* bits) and numpy's isclose tolerance (atol = 1e-8, which lies between    *)
(* 2^-27 and 2^-26) are computed exactly.  Angles in radians are held as   *)
(* a rational multiple of pi.  A Python value is tagged "num" or "str".    *)
(***************************************************************************)
EXTENDS Integers, Sequences, FiniteSets, TLC

VARIABLES cwd, on_rtd, serialized, pc, op, args, cwdpath, pre, arr, ext, ret, outcome

vars == <<cwd, on_rtd, serialized, pc, op, args, cwdpath, pre, arr, ext, ret, outcome>>

(***************************************************************************)
(* Bounds of the model                                                     *)
(***************************************************************************)
NThreads == 2
MaxKnown == 2
MaxSlot == 2
MaxCoord == 1

Threads == 1..NThreads
RaceThreads == {1, 2}

(***************************************************************************)
(* Program constants                                                       *)
(***************************************************************************)
DATA_PATH == "/site-packages/pygedm"
TwoPow24 == 16777216
TwoPow27 == 134217728
NDensity == 23
NSummed == 7
SM_REF == 292

Dirs == {"/home/user", "/tmp", DATA_PATH}

(***************************************************************************)
(* Python values                                                           *)
(***************************************************************************)
Num(n) == [t |-> "num", n |-> n, s |-> ""]
Str(s) == [t |-> "str", n |-> 0, s |-> s]
Abs(n) == IF n < 0 THEN 0 - n ELSE n
Q(v, unit) == [val |-> v, unit |-> unit]

(***************************************************************************)
(* numpy conversions                                                       *)
(***************************************************************************)
\* np.array(v, dtype='float32') / np.deg2rad(v) accept v
CanCoerce(v) == v.t = "num"

RECURSIVE Quantum(_)
Quantum(a) == IF a < TwoPow24 THEN 1 ELSE 2 * Quantum(a \div 2)

RoundHalfEven(a, q) ==
    LET lo == (a \div q) * q
        rem == a - lo
    IN  IF 2 * rem < q THEN lo
        ELSE IF 2 * rem > q THEN lo + q
        ELSE IF (lo \div q) % 2 = 0 THEN lo ELSE lo + q

\* the value of a float32 array built from n (round to 24 significant bits)
Float32(n) ==
    LET a == Abs(n)
        r == RoundHalfEven(a, Quantum(a))
    IN  IF n < 0 THEN 0 - r ELSE r

\* np.zeros_like(a)
zeros_like(a) == 0

\* np.deg2rad(d): d degrees = (d / 180) * pi radians
deg2rad(d) == [pi_num |-> d, pi_den |-> 180]

\* variant: exact comparison instead of a tolerance
isclose_Exact(a, b) == a = b

\* np.isclose(a, b) with the defaults rtol = 1e-5, atol = 1e-8:
\* |a - b| <= atol + rtol * |b|, in units of 2^-27
isclose(a, b) == Abs(a - b) <= (TwoPow27 + 1000 * Abs(b)) \div 100000000

\* float(a) of a rank-0 float32 array: exact
float(a) == a

\* (x * u.kpc).to('pc')
KpcToPc(x) == x * 1000

\* np.sum(s)
RECURSIVE SumSeq(_)
SumSeq(s) == IF s = <<>> THEN 0 ELSE Head(s) + SumSeq(Tail(s))

\* s[:k]
Slice(s, k) == SubSeq(s, 1, IF Len(s) < k THEN Len(s) ELSE k)

(***************************************************************************)
(* TAUISS                                                                  *)
(***************************************************************************)
\* (sm / 292.)**1.2 for sm = 292 * k^5, which is k^6
Pow1p2(sm) ==
    LET r == sm \div SM_REF
        k == CHOOSE j \in 0..r : j * j * j * j * j = r
    IN  k * k * k * k * k * k

\* nu**(-4.4); the wrapper only ever passes nu = 1.0
PowNeg4p4(nu) == CASE nu = 1 -> 1

TAUISS(d, sm, nu) == 1 * Pow1p2(sm) * d * PowNeg4p4(nu)

(***************************************************************************)
(* What the body of a guarded function does up to its first exit or its    *)
(* call of the external routine                                            *)
(***************************************************************************)
Raise(e) == [kind |-> "raise", err |-> e, res |-> <<>>, fn |-> "none", a |-> <<>>, dm |-> 0, dist |-> 0]
Return(r) == [kind |-> "return", err |-> "", res |-> r, fn |-> "none", a |-> <<>>, dm |-> 0, dist |-> 0]
Invoke(fn, a, dm, dist) == [kind |-> "call", err |-> "", res |-> <<>>, fn |-> fn, a |-> a, dm |-> dm, dist |-> dist]

\* variant: dm and dist handed over in each other's position
dm_to_dist_body_Swapped(l, b, dm_in) ==
    IF ~CanCoerce(dm_in) THEN Raise("ValueError")
    ELSE LET dm == Float32(dm_in.n)
             dist == zeros_like(dm)
         IN  IF ~CanCoerce(l) \/ ~CanCoerce(b) THEN Raise("TypeError")
             ELSE LET l_rad == deg2rad(l.n)
                      b_rad == deg2rad(b.n)
                      ndir == 1
                  IN  IF isclose(dm, 0)
                      THEN Return(<<Q(0, "pc"), Q(0, "s")>>)
                      ELSE Invoke("dmdsm", <<l_rad, b_rad, ndir, dist, dm>>, dm, dist)

\* dm_to_dist, lines 175-183
dm_to_dist_body(l, b, dm_in) ==
    IF ~CanCoerce(dm_in) THEN Raise("ValueError")
    ELSE LET dm == Float32(dm_in.n)
             dist == zeros_like(dm)
         IN  IF ~CanCoerce(l) \/ ~CanCoerce(b) THEN Raise("TypeError")
             ELSE LET l_rad == deg2rad(l.n)
                      b_rad == deg2rad(b.n)
                      ndir == 1
                  IN  IF isclose(dm, 0)
                      THEN Return(<<Q(0, "pc"), Q(0, "s")>>)
                      ELSE Invoke("dmdsm", <<l_rad, b_rad, ndir, dm, dist>>, dm, dist)

\* variant: the uniform-weighted sm used in place of smtau
dm_to_dist_tail_Sm(dm, dist, r) ==
    LET sm == r[2]
        tau_sc == TAUISS(float(dist), sm, 1)
    IN  <<Q(KpcToPc(float(dist)), "pc"), Q(tau_sc, "s")>>

\* dm_to_dist, lines 183-186: unpack the 5-tuple, TAUISS, attach units
dm_to_dist_tail(dm, dist, r) ==
    LET smtau == r[3]
        tau_sc == TAUISS(float(dist), smtau, 1)
    IN  <<Q(KpcToPc(float(dist)), "pc"), Q(tau_sc, "s")>>

\* variant: lon and lat handed to the routine without the coercion check
dist_to_dm_body_RawAngles(l, b, dist_in) ==
    IF ~CanCoerce(dist_in) THEN Raise("ValueError")
    ELSE LET dist == Float32(dist_in.n)
             dm == zeros_like(dist)
             l_rad == deg2rad(l.n)
             b_rad == deg2rad(b.n)
             ndir == 0 - 1
         IN  IF isclose(dist, 0)
             THEN Return(<<Q(0, "pc/cm3"), Q(0, "s")>>)
             ELSE Invoke("dmdsm", <<l_rad, b_rad, ndir, dm, dist>>, dm, dist)

\* dist_to_dm, lines 201-210
dist_to_dm_body(l, b, dist_in) ==
    IF ~CanCoerce(dist_in) THEN Raise("ValueError")
    ELSE LET dist == Float32(dist_in.n)
             dm == zeros_like(dist)
         IN  IF ~CanCoerce(l) \/ ~CanCoerce(b) THEN Raise("TypeError")
             ELSE LET l_rad == deg2rad(l.n)
                      b_rad == deg2rad(b.n)
                      ndir == 0 - 1
                  IN  IF isclose(dist, 0)
                      THEN Return(<<Q(0, "pc/cm3"), Q(0, "s")>>)
                      ELSE Invoke("dmdsm", <<l_rad, b_rad, ndir, dm, dist>>, dm, dist)

\* dist_to_dm, lines 210-213
dist_to_dm_tail(dm, dist, r) ==
    LET smtau == r[3]
        tau_sc == TAUISS(float(dist), smtau, 1)
    IN  <<Q(float(dm), "pc/cm3"), Q(tau_sc, "s")>>

\* calculate_electron_density_xyz, line 231
calculate_electron_density_xyz_body(x, y, z) ==
    Invoke("density_2001", <<x, y, z>>, 0, 0)

\* variant: the whole vector summed
calculate_electron_density_xyz_tail_SumAll(ne_out) ==
    IF ne_out.scalar
    THEN [kind |-> "raise", err |-> "TypeError", res |-> <<>>]
    ELSE [kind |-> "return", err |-> "",
          res |-> <<Q(SumSeq(ne_out.vec), "1/cm3")>>]

\* calculate_electron_density_xyz, line 232: ne_out[:7] of a scalar raises
calculate_electron_density_xyz_tail(ne_out) ==
    IF ne_out.scalar
    THEN [kind |-> "raise", err |-> "TypeError", res |-> <<>>]
    ELSE [kind |-> "return", err |-> "",
          res |-> <<Q(SumSeq(Slice(ne_out.vec, NSummed)), "1/cm3")>>]

(***************************************************************************)
(* The external routines (Fortran, reached through f2py) and their         *)
(* READTHEDOCS stand-in                                                    *)
(***************************************************************************)
ExtErrors == {"RuntimeError", "SystemError"}

SmValues == {0, SM_REF}
SmtauValues == {0, SM_REF, 32 * SM_REF}

\* limit, sm, smtau, smtheta, smiso
DmdsmOutputs ==
    {<<Str(lim), sm, smtau, smtheta, smiso>> :
        lim \in {" ", ">"}, sm \in SmValues, smtau \in SmtauValues,
        smtheta \in SmValues, smiso \in SmValues}

SlotValues == 0..MaxSlot

\* ne1..nevn, then the weights and flags
DensityOutputs ==
    {[i \in 1..NDensity |-> IF i <= 7 THEN h[i] ELSE tl] :
        h \in [1..7 -> 0..1], tl \in {0, 99}}
    \cup {[i \in 1..NDensity |-> IF i <= 7 THEN i ELSE 99]}

\* Mock.dmdsm
Mock_dmdsm == <<Num(0), 0, 0, 0, 0>>

\* Mock.density_2001
Mock_density_2001 == [scalar |-> TRUE, vec |-> <<>>]

NoExt == [n |-> 0, fn |-> "none", a |-> <<>>, cwd |-> "none"]
NoRet == [kind |-> "none", err |-> "", tuple |-> <<>>, vec |-> <<>>, scalar |-> FALSE, slot |-> 0]
NoOutcome == [kind |-> "none", err |-> "", res |-> <<>>]
NoArr == [dm |-> 0, dist |-> 0]

(***************************************************************************)
(* Callers and their inputs                                                *)
(***************************************************************************)
Lons == {Num(0), Num(90), Str("abc")}
Lats == {Num(0 - 90), Str("abc")}
Knowns == {Num(n) : n \in (0 - MaxKnown)..MaxKnown} \cup {Num(TwoPow24 + 1), Str("abc")}
Coords == {Num(n) : n \in 0..MaxCoord}

Inputs ==
    {[op |-> o, a |-> <<l, b, q>>] :
        o \in {"dm_to_dist", "dist_to_dm"}, l \in Lons, b \in Lats, q \in Knowns}
    \cup {[op |-> "calculate_electron_density_xyz", a |-> <<x, y, z>>] :
        x \in Coords, y \in Coords, z \in Coords}

RaceInputs ==
    {[op |-> o, a |-> <<Num(90), Num(0 - 90), Num(2)>>] : o \in {"dm_to_dist", "dist_to_dm"}}
    \cup {[op |-> "calculate_electron_density_xyz", a |-> <<Num(0), Num(0), Num(0)>>]}

RaceDmdsmOutputs == {<<Str(" "), 0, SM_REF, 0, 0>>}
RaceSlotValues == {1}
RaceDensityOutputs == {[i \in 1..NDensity |-> IF i <= 7 THEN i ELSE 99]}
RaceErrors == {"RuntimeError"}

InFlight(t) == pc[t] # "idle"

(***************************************************************************)
(* run_from_pkgdir.wrapped                                                 *)
(***************************************************************************)
\* a caller calls a guarded operation; callers that serialize their calls
\* wait until no other call is in flight
Call(t, ins) ==
    /\ pc[t] = "idle"
    /\ serialized => \A u \in Threads \ {t} : ~InFlight(u)
    /\ \E i \in ins :
          /\ op' = [op EXCEPT ![t] = i.op]
          /\ args' = [args EXCEPT ![t] = i.a]
    /\ pre' = [pre EXCEPT ![t] = cwd]
    /\ pc' = [pc EXCEPT ![t] = "getcwd"]
    /\ UNCHANGED <<cwd, on_rtd, serialized, cwdpath, arr, ext, ret, outcome>>

\* variant: the directory read after the chdir
wrapped_getcwd_Late(t) ==
    /\ pc[t] = "getcwd"
    /\ cwdpath' = [cwdpath EXCEPT ![t] = DATA_PATH]
    /\ pc' = [pc EXCEPT ![t] = "chdir"]
    /\ UNCHANGED <<cwd, on_rtd, serialized, op, args, pre, arr, ext, ret, outcome>>

\* cwdpath = os.getcwd()
wrapped_getcwd(t) ==
    /\ pc[t] = "getcwd"
    /\ cwdpath' = [cwdpath EXCEPT ![t] = cwd]
    /\ pc' = [pc EXCEPT ![t] = "chdir"]
    /\ UNCHANGED <<cwd, on_rtd, serialized, op, args, pre, arr, ext, ret, outcome>>

\* variant: no chdir into the package directory
wrapped_chdir_Skipped(t) ==
    /\ pc[t] = "chdir"
    /\ pc' = [pc EXCEPT ![t] = "body"]
    /\ UNCHANGED <<cwd, on_rtd, serialized, op, args, cwdpath, pre, arr, ext, ret, outcome>>

\* os.chdir(DATA_PATH)
wrapped_chdir(t) ==
    /\ pc[t] = "chdir"
    /\ cwd' = DATA_PATH
    /\ pc' = [pc EXCEPT ![t] = "body"]
    /\ UNCHANGED <<on_rtd, serialized, op, args, cwdpath, pre, arr, ext, ret, outcome>>

\* r = f(*args, **kwargs), up to f's first exit or its call of the routine
Enter(t, step) ==
    IF step.kind = "call"
    THEN /\ ext' = [ext EXCEPT ![t] = [n |-> ext[t].n + 1, fn |-> step.fn, a |-> step.a, cwd |-> cwd]]
         /\ arr' = [arr EXCEPT ![t] = [dm |-> step.dm, dist |-> step.dist]]
         /\ pc' = [pc EXCEPT ![t] = "in_ext"]
         /\ UNCHANGED outcome
    ELSE /\ outcome' = [outcome EXCEPT ![t] = [kind |-> step.kind, err |-> step.err, res |-> step.res]]
         /\ pc' = [pc EXCEPT ![t] = "finally"]
         /\ UNCHANGED <<ext, arr>>

dm_to_dist(t) ==
    /\ pc[t] = "body"
    /\ op[t] = "dm_to_dist"
    /\ Enter(t, dm_to_dist_body(args[t][1], args[t][2], args[t][3]))
    /\ UNCHANGED <<cwd, on_rtd, serialized, op, args, cwdpath, pre, ret>>

dist_to_dm(t) ==
    /\ pc[t] = "body"
    /\ op[t] = "dist_to_dm"
    /\ Enter(t, dist_to_dm_body(args[t][1], args[t][2], args[t][3]))
    /\ UNCHANGED <<cwd, on_rtd, serialized, op, args, cwdpath, pre, ret>>

calculate_electron_density_xyz(t) ==
    /\ pc[t] = "body"
    /\ op[t] = "calculate_electron_density_xyz"
    /\ Enter(t, calculate_electron_density_xyz_body(args[t][1], args[t][2], args[t][3]))
    /\ UNCHANGED <<cwd, on_rtd, serialized, op, args, cwdpath, pre, ret>>

\* the rest of f once dmdsm.dmdsm has returned tuple r and left the arrays a
AfterDmdsm(t, a, r) ==
    outcome' = [outcome EXCEPT ![t] =
        [kind |-> "return", err |-> "",
         res |-> IF op[t] = "dm_to_dist"
                 THEN dm_to_dist_tail(a.dm, a.dist, r)
                 ELSE dist_to_dm_tail(a.dm, a.dist, r)]]

\* dmdsm.dmdsm returns: it has filled the slot of the solved quantity
\* (dist for ndir >= 0, dmpsr for ndir < 0)
dmdsm_returns(t, outs, slots) ==
    /\ pc[t] = "in_ext"
    /\ ext[t].fn = "dmdsm"
    /\ ~on_rtd
    /\ \E r \in outs, s \in slots :
          LET a == IF ext[t].a[3] >= 0
                   THEN [arr[t] EXCEPT !.dist = s]
                   ELSE [arr[t] EXCEPT !.dm = s]
          IN  /\ arr' = [arr EXCEPT ![t] = a]
              /\ ret' = [ret EXCEPT ![t] = [NoRet EXCEPT !.kind = "ok", !.tuple = r, !.slot = s]]
              /\ AfterDmdsm(t, a, r)
    /\ pc' = [pc EXCEPT ![t] = "finally"]
    /\ UNCHANGED <<cwd, on_rtd, serialized, op, args, cwdpath, pre, ext>>

\* Mock.dmdsm returns 0, 0, 0, 0, 0 and touches no argument
Mock_dmdsm_returns(t) ==
    /\ pc[t] = "in_ext"
    /\ ext[t].fn = "dmdsm"
    /\ on_rtd
    /\ ret' = [ret EXCEPT ![t] = [NoRet EXCEPT !.kind = "ok", !.tuple = Mock_dmdsm]]
    /\ AfterDmdsm(t, arr[t], Mock_dmdsm)
    /\ pc' = [pc EXCEPT ![t] = "finally"]
    /\ UNCHANGED <<cwd, on_rtd, serialized, op, args, cwdpath, pre, arr, ext>>

\* density.density_2001 returns its vector
density_2001_returns(t, vecs) ==
    /\ pc[t] = "in_ext"
    /\ ext[t].fn = "density_2001"
    /\ ~on_rtd
    /\ \E v \in vecs :
          /\ ret' = [ret EXCEPT ![t] = [NoRet EXCEPT !.kind = "ok", !.vec = v]]
          /\ outcome' = [outcome EXCEPT ![t] =
                calculate_electron_density_xyz_tail([scalar |-> FALSE, vec |-> v])]
    /\ pc' = [pc EXCEPT ![t] = "finally"]
    /\ UNCHANGED <<cwd, on_rtd, serialized, op, args, cwdpath, pre, arr, ext>>

\* Mock.density_2001 returns 0
Mock_density_2001_returns(t) ==
    /\ pc[t] = "in_ext"
    /\ ext[t].fn = "density_2001"
    /\ on_rtd
    /\ ret' = [ret EXCEPT ![t] = [NoRet EXCEPT !.kind = "ok", !.scalar = TRUE]]
    /\ outcome' = [outcome EXCEPT ![t] = calculate_electron_density_xyz_tail(Mock_density_2001)]
    /\ pc' = [pc EXCEPT ![t] = "finally"]
    /\ UNCHANGED <<cwd, on_rtd, serialized, op, args, cwdpath, pre, arr, ext>>

\* the external routine raises; f has no handler, so the error leaves f
ext_raises(t, errs) ==
    /\ pc[t] = "in_ext"
    /\ ~on_rtd
    /\ \E e \in errs :
          /\ ret' = [ret EXCEPT ![t] = [NoRet EXCEPT !.kind = "raise", !.err = e]]
          /\ outcome' = [outcome EXCEPT ![t] = [kind |-> "raise", err |-> e, res |-> <<>>]]
    /\ pc' = [pc EXCEPT ![t] = "finally"]
    /\ UNCHANGED <<cwd, on_rtd, serialized, op, args, cwdpath, pre, arr, ext>>

\* variant: the directory restored after a normal return only
wrapped_finally_OnSuccessOnly(t) ==
    /\ pc[t] = "finally"
    /\ cwd' = IF outcome[t].kind = "raise" THEN cwd ELSE cwdpath[t]
    /\ pc' = [pc EXCEPT ![t] = "done"]
    /\ UNCHANGED <<on_rtd, serialized, op, args, cwdpath, pre, arr, ext, ret, outcome>>

\* variant: the error swallowed by the except clause
wrapped_finally_Swallow(t) ==
    /\ pc[t] = "finally"
    /\ cwd' = cwdpath[t]
    /\ pc' = [pc EXCEPT ![t] = "done"]
    /\ outcome' = [outcome EXCEPT ![t] =
          IF outcome[t].kind = "raise" THEN [kind |-> "return", err |-> "", res |-> <<>>]
          ELSE outcome[t]]
    /\ UNCHANGED <<on_rtd, serialized, op, args, cwdpath, pre, arr, ext, ret>>

\* except: raise / finally: os.chdir(cwdpath); the return value or the
\* error in flight is kept
wrapped_finally(t) ==
    /\ pc[t] = "finally"
    /\ cwd' = cwdpath[t]
    /\ pc' = [pc EXCEPT ![t] = "done"]
    /\ UNCHANGED <<on_rtd, serialized, op, args, cwdpath, pre, arr, ext, ret, outcome>>

\* the caller has received the result or the error
Received(t) ==
    /\ pc[t] = "done"
    /\ pc' = [pc EXCEPT ![t] = "idle"]
    /\ op' = [op EXCEPT ![t] = "none"]
    /\ args' = [args EXCEPT ![t] = <<>>]
    /\ cwdpath' = [cwdpath EXCEPT ![t] = "none"]
    /\ pre' = [pre EXCEPT ![t] = "none"]
    /\ arr' = [arr EXCEPT ![t] = NoArr]
    /\ ext' = [ext EXCEPT ![t] = NoExt]
    /\ ret' = [ret EXCEPT ![t] = NoRet]
    /\ outcome' = [outcome EXCEPT ![t] = NoOutcome]
    /\ UNCHANGED <<cwd, on_rtd, serialized>>

\* between calls the program changes its own working directory
UserChdir ==
    /\ \A t \in Threads : ~InFlight(t)
    /\ \E d \in Dirs : cwd' = d
    /\ UNCHANGED <<on_rtd, serialized, pc, op, args, cwdpath, pre, arr, ext, ret, outcome>>

(***************************************************************************)
(* Specifications                                                          *)
(***************************************************************************)
InitCalls ==
    /\ pc = [t \in Threads |-> "idle"]
    /\ op = [t \in Threads |-> "none"]
    /\ args = [t \in Threads |-> <<>>]
    /\ cwdpath = [t \in Threads |-> "none"]
    /\ pre = [t \in Threads |-> "none"]
    /\ arr = [t \in Threads |-> NoArr]
    /\ ext = [t \in Threads |-> NoExt]
    /\ ret = [t \in Threads |-> NoRet]
    /\ outcome = [t \in Threads |-> NoOutcome]

\* single-threaded or serialized callers
Init ==
    /\ cwd \in Dirs
    /\ on_rtd \in BOOLEAN
    /\ serialized = TRUE
    /\ InitCalls

Next ==
    \/ \E t \in Threads : Call(t, Inputs)
    \/ \E t \in Threads : wrapped_getcwd(t)
    \/ \E t \in Threads : wrapped_chdir(t)
    \/ \E t \in Threads : dm_to_dist(t)
    \/ \E t \in Threads : dist_to_dm(t)
    \/ \E t \in Threads : calculate_electron_density_xyz(t)
    \/ \E t \in Threads : dmdsm_returns(t, DmdsmOutputs, SlotValues)
    \/ \E t \in Threads : Mock_dmdsm_returns(t)
    \/ \E t \in Threads : density_2001_returns(t, DensityOutputs)
    \/ \E t \in Threads : Mock_density_2001_returns(t)
    \/ \E t \in Threads : ext_raises(t, ExtErrors)
    \/ \E t \in Threads : wrapped_finally(t)
    \/ \E t \in Threads : Received(t)
    \/ UserChdir

Spec == Init /\ [][Next]_vars

\* two threads, serialized by their callers or not
InitRace ==
    /\ cwd \in Dirs
    /\ on_rtd \in BOOLEAN
    /\ serialized \in BOOLEAN
    /\ InitCalls

NextRace ==
    \/ \E t \in RaceThreads : Call(t, RaceInputs)
    \/ \E t \in RaceThreads : wrapped_getcwd(t)
    \/ \E t \in RaceThreads : wrapped_chdir(t)
    \/ \E t \in RaceThreads : dm_to_dist(t)
    \/ \E t \in RaceThreads : dist_to_dm(t)
    \/ \E t \in RaceThreads : calculate_electron_density_xyz(t)
    \/ \E t \in RaceThreads : dmdsm_returns(t, RaceDmdsmOutputs, RaceSlotValues)
    \/ \E t \in RaceThreads : Mock_dmdsm_returns(t)
    \/ \E t \in RaceThreads : density_2001_returns(t, RaceDensityOutputs)
    \/ \E t \in RaceThreads : Mock_density_2001_returns(t)
    \/ \E t \in RaceThreads : ext_raises(t, RaceErrors)
    \/ \E t \in RaceThreads : wrapped_finally(t)
    \/ \E t \in RaceThreads : Received(t)
    \/ UserChdir

SpecRace == InitRace /\ [][NextRace]_vars

(***************************************************************************)
(* Properties                                                              *)
(***************************************************************************)
SolverOps == {"dm_to_dist", "dist_to_dm"}
Exited(t) == pc[t] \in {"finally", "done"}
AllNumeric(t) == \A i \in 1..3 : args[t][i].t = "num"
\* |n * 2^-27| <= 1e-8
NearZero(n) == Abs(n) <= 10 /\ Abs(n) * 100000000 <= TwoPow27

\* C1: under single-threaded or serialized use, when a guarded operation
\* has returned or raised (normal return, zero short-circuit or an error of
\* the external routine), the working directory is the one observed
\* immediately before the call.
C1_CwdRestored ==
    \A t \in Threads : pc[t] = "done" => cwd = pre[t]

C1_Witness ==
    \E t \in Threads :
        /\ pc[t] = "done"
        /\ ret[t].kind = "raise"
        /\ outcome[t].kind = "raise"
        /\ pre[t] # DATA_PATH
        /\ cwd = pre[t]

\* C2: dm_to_dist with dm close to 0 and dist_to_dm with dist close to 0
\* (numeric lon and lat) return a zero quantity and a zero scattering time,
\* and the external routine is not invoked during the call.
C2_ZeroShortCircuit ==
    \A t \in Threads :
        (op[t] \in SolverOps /\ AllNumeric(t) /\ NearZero(args[t][3].n)) =>
            /\ ext[t].n = 0
            /\ pc[t] # "in_ext"
            /\ Exited(t) =>
                  outcome[t] = [kind |-> "return", err |-> "",
                                res |-> <<Q(0, IF op[t] = "dm_to_dist" THEN "pc" ELSE "pc/cm3"),
                                          Q(0, "s")>>]

C2_Witness ==
    \E t \in Threads :
        /\ pc[t] = "done"
        /\ op[t] = "dist_to_dm"
        /\ args[t][3] = Num(1)
        /\ args[t][1] = Num(90)
        /\ outcome[t].kind = "return"
        /\ outcome[t].res = <<Q(0, "pc/cm3"), Q(0, "s")>>
        /\ ext[t].n = 0

\* C3: under single-threaded or serialized use, whenever the external
\* routine is executing the working directory is DATA_PATH; the routine is
\* entered only between the chdir into DATA_PATH and the restore.
C3_ExtRunsInPkgDir ==
    \A t \in Threads :
        /\ pc[t] = "in_ext" => cwd = DATA_PATH
        /\ ext[t].n > 0 => /\ pc[t] \in {"in_ext", "finally", "done"}
                           /\ ext[t].cwd = DATA_PATH

C3_Witness ==
    \E t \in Threads :
        /\ pc[t] = "in_ext"
        /\ ext[t].fn = "density_2001"
        /\ pre[t] # DATA_PATH
        /\ cwdpath[t] = pre[t]
        /\ cwd = DATA_PATH

\* C4: when the callers serialize their calls, the external routine never
\* runs outside DATA_PATH and a finished call leaves the working directory
\* as it found it; two unserialized calls can reach both bad states (the
\* witness).
C4_SerializedIsSafe ==
    serialized =>
        \A t \in RaceThreads :
            /\ pc[t] = "in_ext" => cwd = DATA_PATH
            /\ ext[t].n > 0 => ext[t].cwd = DATA_PATH
            /\ pc[t] = "done" => cwd = pre[t]

\* both calls started in the same directory; the second ran the routine
\* outside DATA_PATH, and the directory is left at DATA_PATH
C4_Witness ==
    /\ ~serialized
    /\ pc[1] = "done" /\ pc[2] = "done"
    /\ pre[1] = pre[2] /\ pre[1] # DATA_PATH
    /\ ext[1].n = 1 /\ ext[1].cwd = DATA_PATH
    /\ ext[2].n = 1 /\ ext[2].cwd = pre[1]
    /\ cwd = DATA_PATH

\* C5 as stated: the external solve routine receives the caller's own dm
\* (dist) value in the fourth (fifth) position.
C5_CallerValuePassed ==
    \A t \in Threads :
        (pc[t] = "in_ext" /\ ext[t].fn = "dmdsm") =>
            LET l_rad == [pi_num |-> args[t][1].n, pi_den |-> 180]
                b_rad == [pi_num |-> args[t][2].n, pi_den |-> 180]
            IN  /\ op[t] = "dm_to_dist" => ext[t].a = <<l_rad, b_rad, 1, args[t][3].n, 0>>
                /\ op[t] = "dist_to_dm" => ext[t].a = <<l_rad, b_rad, 0 - 1, 0, args[t][3].n>>

\* C5 amended: the external solve routine receives lon and lat in radians,
\* direction +1 (dm_to_dist) or -1 (dist_to_dm), the DM in the fourth and
\* the distance in the fifth position; the known quantity is the caller's
\* value rounded to a 32-bit float and the other slot is zero.
C5_Float32ValuePassed ==
    \A t \in Threads :
        (pc[t] = "in_ext" /\ ext[t].fn = "dmdsm") =>
            LET l_rad == [pi_num |-> args[t][1].n, pi_den |-> 180]
                b_rad == [pi_num |-> args[t][2].n, pi_den |-> 180]
                known == Float32(args[t][3].n)
            IN  /\ ext[t].n = 1
                /\ op[t] = "dm_to_dist" => ext[t].a = <<l_rad, b_rad, 1, known, 0>>
                /\ op[t] = "dist_to_dm" => ext[t].a = <<l_rad, b_rad, 0 - 1, 0, known>>

C5_Witness ==
    \E t \in Threads :
        /\ pc[t] = "in_ext"
        /\ op[t] = "dist_to_dm"
        /\ args[t] = <<Num(90), Num(0 - 90), Num(TwoPow24 + 1)>>
        /\ ext[t].a = <<[pi_num |-> 90, pi_den |-> 180], [pi_num |-> 0 - 90, pi_den |-> 180],
                        0 - 1, 0, TwoPow24>>

\* C6: calculate_electron_density_xyz invokes the density routine exactly
\* once with (x, y, z), whatever the position, and returns the sum of the
\* first 7 components of the vector it returns.
C6_SumOfFirstSeven ==
    \A t \in Threads :
        op[t] = "calculate_electron_density_xyz" =>
            /\ pc[t] \in {"in_ext", "finally", "done"} =>
                  /\ ext[t].n = 1
                  /\ ext[t].fn = "density_2001"
                  /\ ext[t].a = args[t]
            /\ (Exited(t) /\ ret[t].kind = "ok" /\ ~ret[t].scalar) =>
                  LET v == ret[t].vec
                  IN  outcome[t] =
                        [kind |-> "return", err |-> "",
                         res |-> <<Q(v[1] + v[2] + v[3] + v[4] + v[5] + v[6] + v[7], "1/cm3")>>]

C6_Witness ==
    \E t \in Threads :
        /\ pc[t] = "done"
        /\ op[t] = "calculate_electron_density_xyz"
        /\ ret[t].vec = [i \in 1..NDensity |-> IF i <= 7 THEN i ELSE 99]
        /\ outcome[t].res = <<Q(28, "1/cm3")>>

\* C7: when the external routine raises, the caller receives that same
\* error, the routine has been invoked once for the call and never more, and
\* the working directory is restored when the error reaches the caller.
C7_ErrorPropagates ==
    \A t \in Threads :
        /\ ext[t].n <= 1
        /\ (Exited(t) /\ ret[t].kind = "raise") =>
              /\ outcome[t] = [kind |-> "raise", err |-> ret[t].err, res |-> <<>>]
              /\ ext[t].n = 1
        /\ (pc[t] = "done" /\ ret[t].kind = "raise") => cwd = pre[t]

C7_Witness ==
    \E t \in Threads :
        /\ pc[t] = "done"
        /\ op[t] = "dm_to_dist"
        /\ ret[t].kind = "raise"
        /\ ret[t].err = "SystemError"
        /\ outcome[t].err = "SystemError"
        /\ pre[t] = "/tmp"
        /\ cwd = "/tmp"

\* C8: when lon, lat or the known quantity of dm_to_dist / dist_to_dm is
\* not numeric, the call raises the coercion error, the external routine is
\* not invoked, and the working directory is restored.
C8_CoercionError ==
    \A t \in Threads :
        (op[t] \in SolverOps /\ ~AllNumeric(t)) =>
            /\ ext[t].n = 0
            /\ pc[t] # "in_ext"
            /\ Exited(t) => /\ outcome[t].kind = "raise"
                            /\ outcome[t].err \in {"ValueError", "TypeError"}
            /\ pc[t] = "done" => cwd = pre[t]

C8_Witness ==
    \E t \in Threads :
        /\ pc[t] = "done"
        /\ op[t] = "dist_to_dm"
        /\ args[t] = <<Str("abc"), Num(0 - 90), Num(0)>>
        /\ outcome[t].kind = "raise"
        /\ pre[t] = "/home/user"
        /\ cwd = "/home/user"

\* (smtau / 292)^1.2 * d at nu = 1, for the values of smtau the routine
\* returns here
C9_Tau(d, smtau) ==
    CASE smtau = 0 -> 0
      [] smtau = 292 -> d
      [] smtau = 9344 -> 64 * d

C10_MockAllZero ==
    \A t \in Threads :
        (on_rtd /\ pc[t] = "done" /\ AllNumeric(t)) =>
            /\ outcome[t].kind = "return"
            /\ \A i \in 1..Len(outcome[t].res) : outcome[t].res[i].val = 0

====
